---- MODULE Spec2Model ----
(***************************************************************************)
(* Model of flask_i18n_pro: the 4-tier locale selector (get_locale), the   *)
(* relative-time helpers (time_ago, is_new), the count formatters and the   *)
(* context-aware lookup (translate_with_context).                          *)
(***************************************************************************)
EXTENDS Integers, Sequences, FiniteSets, TLC

VARIABLES
    languages,      \* app.config['LANGUAGES'], an ordered list of tags
    defaultLocale,  \* app.config['BABEL_DEFAULT_LOCALE']
    session,        \* flask.session, a dict; only the key 'lang' matters
    args,           \* request.args of the last request
    accept,         \* request.accept_languages of the last request, best first
    locale,         \* value returned by the last get_locale() call
    tier,           \* return statement the last call left through (0: no call yet)
    writes,         \* number of session assignments performed by the last call
    sticky,         \* history: the most recent supported ?lang value, if any
    repeated,       \* history: the last request carried the signals of the one before
    call,           \* name of the formatter a template calls ("none": none)
    pc,             \* "call": the formatter is about to run, "return": it has returned
    dtGiven,        \* whether the dt argument of the last call was a datetime (not None)
    elapsed,        \* now - dt of the last call, in ticks of 1/TicksPerSecond s
    days,           \* the days argument of the last is_new call
    count,          \* the count argument of the last format_product_count call
    ago,            \* value returned by the last time_ago call
    isNew,          \* value returned by the last is_new call
    products,       \* value returned by the last format_product_count call
    catalog,        \* (context, message id) pairs the active locale's catalog translates
    context,        \* the context argument of the last translate_with_context call
    message,        \* the message argument of the last translate_with_context call
    translated      \* value returned by the last translate_with_context call

resolverVars == <<languages, defaultLocale, session, args, accept, tier, writes, sticky,
                  repeated>>

formatVars == <<call, pc, dtGiven, elapsed, days, count, ago, isNew, products,
                catalog, context, message, translated>>

lookupVars == <<catalog, context, message, translated>>

vars == <<languages, defaultLocale, session, args, accept, locale, tier, writes, sticky,
          repeated,
          call, pc, dtGiven, elapsed, days, count, ago, isNew, products,
          catalog, context, message, translated>>

-----------------------------------------------------------------------------
(* Values *)

\* Python's None, kept a string so that it compares with locale tags
NoneVal == "<None>"

\* longest Accept-Language list of a request
MaxAccept == 2

\* app.config['LANGUAGES'] as deployments set it; <<"en">> is the default
LanguageConfigs == { <<"en">>, <<"en", "ru">>, <<"ru", "mn">> }

\* app.config['BABEL_DEFAULT_LOCALE'] as deployments set it; "en" is the default
DefaultConfigs == {"en", "ru"}

\* values of the ?lang query parameter
LangArgs == {"en", "ru", "mn", "fr", ""}

\* values a session may hold under 'lang' when a request arrives
SessionLangs == {"ru", "mn", "fr", "", NoneVal}

\* language tags of an Accept-Language header
AcceptTags == {"ru", "en-US", "fr"}

\* a dict without keys
EmptyDict == [k \in {} |-> NoneVal]

\* a dict holding the single key 'lang'
LangDict(v) == [k \in {"lang"} |-> v]

\* d[k] = v of a Python dict
DictSet(d, k, v) == [x \in (DOMAIN d) \cup {k} |-> IF x = k THEN v ELSE d[x]]

\* x in list
InList(x, list) == \E i \in 1..Len(list) : list[i] = x

\* the Accept-Language lists tried: no tag listed twice
AcceptLists ==
    { client \in UNION { [1..n -> AcceptTags] : n \in 0..MaxAccept } :
        \A i, j \in 1..Len(client) : i # j => client[i] # client[j] }

-----------------------------------------------------------------------------
(* Accept-Language negotiation *)

\* the primary subtag of a language tag: the part before the first '-'
PrimarySubtag(tag) == IF tag = "en-US" THEN "en" ELSE tag

\* first position of the client list (highest quality first) holding the
\* server item; 0 when there is none
ClientRank(item, client) ==
    IF \E i \in 1..Len(client) : client[i] = item
    THEN CHOOSE i \in 1..Len(client) :
            /\ client[i] = item
            /\ \A j \in 1..(i - 1) : client[j] # item
    ELSE 0

\* Accept.best_match: the server item matched by the best client item,
\* the earlier server item on equal quality; NoneVal when nothing matches
AcceptBestMatch(matches, client) ==
    LET hit == { i \in 1..Len(matches) : ClientRank(matches[i], client) # 0 }
    IN  IF hit = {} THEN NoneVal
        ELSE matches[CHOOSE i \in hit :
                \A j \in hit :
                    \/ ClientRank(matches[i], client) < ClientRank(matches[j], client)
                    \/ /\ ClientRank(matches[i], client) = ClientRank(matches[j], client)
                       /\ i <= j]

\* the client list reduced to primary subtags
PrimaryTags(client) == [i \in 1..Len(client) |-> PrimarySubtag(client[i])]

\* request.accept_languages.best_match(languages): exact tags first, then
\* the client's primary subtags
best_match(client, matches) ==
    IF AcceptBestMatch(matches, client) # NoneVal
    THEN AcceptBestMatch(matches, client)
    ELSE AcceptBestMatch(matches, PrimaryTags(client))

-----------------------------------------------------------------------------
(* get_locale *)

\* UrlTier without the membership test: any ?lang value is taken
UrlTierUnvalidated(a, langs) == "lang" \in DOMAIN a

\* UrlTier testing against LANGUAGES kept as one string: the empty value
\* is a substring of it
UrlTierSubstring(a, langs) ==
    /\ "lang" \in DOMAIN a
    /\ (a["lang"] = "" \/ InList(a["lang"], langs))

\* tier 1 guard: "lang" in request.args and its value in LANGUAGES
UrlTier(a, langs) ==
    /\ "lang" \in DOMAIN a
    /\ InList(a["lang"], langs)

\* StoreLang writing under another key: session["language"] = lang
StoreLangWrongKey(s, lang) == DictSet(s, "language", lang)

\* tier 1 effect: session["lang"] = lang
StoreLang(s, lang) == DictSet(s, "lang", lang)

\* SessionTier that also wants a truthy value: session.get("lang") in a
\* fixed list of known tags
SessionTierKnownOnly(s) ==
    /\ "lang" \in DOMAIN s
    /\ s["lang"] \in {"en", "ru", "mn"}

\* tier 2 guard: "lang" in session
SessionTier(s) == "lang" \in DOMAIN s

\* tier 4: the fallback of get_locale
FallbackLocale == "en"

\* get_locale that remembers the negotiated language in the session
get_locale_PersistMatch(a, s, client, langs) ==
    IF UrlTier(a, langs)
    THEN [ret |-> a["lang"], session |-> StoreLang(s, a["lang"]),
          tier |-> 1, writes |-> 1]
    ELSE IF SessionTier(s)
    THEN [ret |-> s["lang"], session |-> s, tier |-> 2, writes |-> 0]
    ELSE IF best_match(client, langs) # NoneVal
    THEN [ret |-> best_match(client, langs),
          session |-> StoreLang(s, best_match(client, langs)),
          tier |-> 3, writes |-> 1]
    ELSE [ret |-> FallbackLocale, session |-> s, tier |-> 4, writes |-> 0]

\* get_locale that asks the Accept-Language header before the session
get_locale_HeaderFirst(a, s, client, langs) ==
    IF UrlTier(a, langs)
    THEN [ret |-> a["lang"], session |-> StoreLang(s, a["lang"]),
          tier |-> 1, writes |-> 1]
    ELSE IF best_match(client, langs) # NoneVal
    THEN [ret |-> best_match(client, langs), session |-> s, tier |-> 3, writes |-> 0]
    ELSE IF SessionTier(s)
    THEN [ret |-> s["lang"], session |-> s, tier |-> 2, writes |-> 0]
    ELSE [ret |-> FallbackLocale, session |-> s, tier |-> 4, writes |-> 0]

\* get_locale that takes the session value out: session.pop("lang")
get_locale_PopSession(a, s, client, langs) ==
    IF UrlTier(a, langs)
    THEN [ret |-> a["lang"], session |-> StoreLang(s, a["lang"]),
          tier |-> 1, writes |-> 1]
    ELSE IF SessionTier(s)
    THEN [ret |-> s["lang"], session |-> EmptyDict, tier |-> 2, writes |-> 0]
    ELSE IF best_match(client, langs) # NoneVal
    THEN [ret |-> best_match(client, langs), session |-> s, tier |-> 3, writes |-> 0]
    ELSE [ret |-> FallbackLocale, session |-> s, tier |-> 4, writes |-> 0]

\* get_locale(): the returned locale, the session it leaves, the return
\* statement taken and the number of session assignments
get_locale(a, s, client, langs) ==
    IF UrlTier(a, langs)
    THEN [ret |-> a["lang"], session |-> StoreLang(s, a["lang"]),
          tier |-> 1, writes |-> 1]
    ELSE IF SessionTier(s)
    THEN [ret |-> s["lang"], session |-> s, tier |-> 2, writes |-> 0]
    ELSE IF best_match(client, langs) # NoneVal
    THEN [ret |-> best_match(client, langs), session |-> s, tier |-> 3, writes |-> 0]
    ELSE [ret |-> FallbackLocale, session |-> s, tier |-> 4, writes |-> 0]

-----------------------------------------------------------------------------
(* Plural forms of the catalogs *)

\* locales a response is rendered in
RenderLocales == {"en", "ru", "mn", "zh"}

\* largest count handed to a count formatter
MaxCount == 125

\* Plural-Forms of the Russian catalog:
\* n%10==1 && n%100!=11 ? 0 : n%10>=2 && n%10<=4 && (n%100<10 || n%100>=20) ? 1 : 2
RuPlural(n) ==
    IF n % 10 = 1 /\ n % 100 # 11 THEN 0
    ELSE IF n % 10 >= 2 /\ n % 10 <= 4 /\ (n % 100 < 10 \/ n % 100 >= 20) THEN 1
    ELSE 2

\* Plural-Forms of the English catalog: n != 1
EnPlural(n) == IF n # 1 THEN 1 ELSE 0

\* plural category of a count in a locale: the Slavic rule for ru, one
\* form for mn and zh, the English rule for every other locale
selectCategory(loc, n) ==
    IF loc = "ru" THEN <<"one", "few", "many">>[RuPlural(n) + 1]
    ELSE IF loc \in {"mn", "zh"} THEN "other"
    ELSE <<"one", "other">>[EnPlural(n) + 1]

\* ngettext(singular, plural, n) % {name: n}: the message, the plural form
\* chosen for n and the number substituted
ngettext(loc, singular, n) ==
    [msgid |-> singular, form |-> selectCategory(loc, n), num |-> n]

\* lazy_gettext(message): a phrase without a number
lazy_gettext(text) == [msgid |-> text, form |-> "none", num |-> 0]

\* format_product_count choosing the form itself, by count == 1
format_product_count_EnglishOnly(loc, n) ==
    [msgid |-> "%(count)d product", form |-> IF n = 1 THEN "one" ELSE "other", num |-> n]

\* format_product_count(count)
format_product_count(loc, n) == ngettext(loc, "%(count)d product", n)

-----------------------------------------------------------------------------
(* Context-aware translations *)

\* the default of translate_with_context's context argument
DefaultContext == "general"

\* contexts a template asks for
Contexts == {DefaultContext, "action", "store_status"}

\* message ids a template asks for
Messages == {"open", "closed"}

\* the catalogs tried: every set of translated (context, message id) pairs
Catalogs == SUBSET (Contexts \X Messages)

\* a string returned by a lookup: the entry of msgid under context ctxt, or
\* the untranslated msgid itself when ctxt is ""
Entry(ctxt, msgid) == [ctxt |-> ctxt, msgid |-> msgid]

\* pgettext(context, message) on the active catalog: the entry of the
\* pair, else the message itself
pgettext(cat, ctxt, msgid) ==
    IF <<ctxt, msgid>> \in cat THEN Entry(ctxt, msgid) ELSE Entry("", msgid)

\* translate_with_context handing its arguments over in its own order
translate_with_context_Swapped(cat, msgid, ctxt) == pgettext(cat, msgid, ctxt)

\* translate_with_context(message, context)
translate_with_context(cat, msgid, ctxt) == pgettext(cat, ctxt, msgid)

-----------------------------------------------------------------------------
(* time_ago and is_new *)

\* ticks per second: total_seconds() is a float, elapsed times are kept
\* in ticks so that fractions of a second exist
TicksPerSecond == 2

\* largest multiple of a bucket unit among the elapsed times tried
MaxMult == 13

\* largest days argument tried with is_new
MaxDays == 10

MINUTE == 60
HOUR == 3600
DAY == 86400
WEEK == 604800
MONTH == 2592000
YEAR == 31536000

\* seconds, as a number of ticks
Secs(n) == n * TicksPerSecond

\* round(seconds / unit) in place of int(seconds / unit)
PyRound(ticks, unit) == (ticks + (Secs(unit) \div 2)) \div Secs(unit)

\* int(seconds / unit): float division, then truncation towards zero
PyInt(ticks, unit) ==
    IF ticks >= 0 THEN ticks \div Secs(unit) ELSE -((-ticks) \div Secs(unit))

\* time_ago whose first bucket is kept for the future only: seconds < 0
time_ago_FutureOnly(loc, given, ticks) ==
    IF ~given THEN lazy_gettext("Unknown")
    ELSE IF ticks < 0 THEN lazy_gettext("Just now")
    ELSE IF ticks < Secs(HOUR)
    THEN ngettext(loc, "%(num)d minute ago", PyInt(ticks, MINUTE))
    ELSE IF ticks < Secs(DAY)
    THEN ngettext(loc, "%(num)d hour ago", PyInt(ticks, HOUR))
    ELSE IF ticks < Secs(WEEK)
    THEN ngettext(loc, "%(num)d day ago", PyInt(ticks, DAY))
    ELSE IF ticks < Secs(MONTH)
    THEN ngettext(loc, "%(num)d week ago", PyInt(ticks, WEEK))
    ELSE IF ticks < Secs(YEAR)
    THEN ngettext(loc, "%(num)d month ago", PyInt(ticks, MONTH))
    ELSE ngettext(loc, "%(num)d year ago", PyInt(ticks, YEAR))

\* time_ago(dt) in locale loc, with now - dt = ticks
time_ago(loc, given, ticks) ==
    IF ~given THEN lazy_gettext("Unknown")
    ELSE IF ticks < Secs(MINUTE) THEN lazy_gettext("Just now")
    ELSE IF ticks < Secs(HOUR)
    THEN ngettext(loc, "%(num)d minute ago", PyInt(ticks, MINUTE))
    ELSE IF ticks < Secs(DAY)
    THEN ngettext(loc, "%(num)d hour ago", PyInt(ticks, HOUR))
    ELSE IF ticks < Secs(WEEK)
    THEN ngettext(loc, "%(num)d day ago", PyInt(ticks, DAY))
    ELSE IF ticks < Secs(MONTH)
    THEN ngettext(loc, "%(num)d week ago", PyInt(ticks, WEEK))
    ELSE IF ticks < Secs(YEAR)
    THEN ngettext(loc, "%(num)d month ago", PyInt(ticks, MONTH))
    ELSE ngettext(loc, "%(num)d year ago", PyInt(ticks, YEAR))

\* is_new with an inclusive bound
is_new_Inclusive(given, ticks, d) ==
    IF ~given THEN FALSE
    ELSE ticks <= Secs(d * DAY)

\* is_new(dt, days), with now - dt = ticks
is_new(given, ticks, d) ==
    IF ~given THEN FALSE
    ELSE ticks < Secs(d * DAY)

\* elapsed times tried: around every multiple of every bucket unit, in the
\* past and in the future
ElapsedSamples ==
    { sign * Secs(k * unit) + delta :
        sign \in {-1, 1},
        k \in 0..MaxMult,
        unit \in {MINUTE, HOUR, DAY, WEEK, MONTH, YEAR},
        delta \in (-TicksPerSecond)..TicksPerSecond }

\* no formatter called
FormatIdle ==
    /\ call = "none"
    /\ pc = "idle"
    /\ dtGiven = FALSE
    /\ elapsed = 0
    /\ days = 0
    /\ count = 0
    /\ ago = lazy_gettext("")
    /\ isNew = FALSE
    /\ products = lazy_gettext("")
    /\ catalog = {}
    /\ context = DefaultContext
    /\ message = ""
    /\ translated = Entry("", "")

-----------------------------------------------------------------------------
(* setup_i18n and the request loop *)

\* setup_i18n: configuration the application runs with
SetupI18n(langs, default) ==
    /\ languages = langs
    /\ defaultLocale = default

Init ==
    /\ \E langs \in LanguageConfigs, default \in DefaultConfigs :
            SetupI18n(langs, default)
    /\ session \in {EmptyDict} \cup { LangDict(v) : v \in SessionLangs }
    /\ args = EmptyDict
    /\ accept = <<>>
    /\ locale = NoneVal
    /\ tier = 0
    /\ writes = 0
    /\ sticky = NoneVal
    /\ repeated = FALSE
    /\ FormatIdle

\* one request: Babel calls the locale selector with the request's signals
Request ==
    \E a \in {EmptyDict} \cup { LangDict(v) : v \in LangArgs },
       client \in AcceptLists :
        LET r == get_locale(a, session, client, languages)
        IN  /\ args' = a
            /\ accept' = client
            /\ locale' = r.ret
            /\ session' = r.session
            /\ tier' = r.tier
            /\ writes' = r.writes
            /\ sticky' = IF "lang" \in DOMAIN a /\ InList(a["lang"], languages)
                         THEN a["lang"] ELSE sticky
            /\ repeated' = (tier # 0 /\ a = args /\ client = accept)
            /\ UNCHANGED <<languages, defaultLocale>>
            /\ UNCHANGED formatVars

Next == Request

Spec == Init /\ [][Next]_vars

\* a session that starts without 'lang': only get_locale writes it
InitFresh ==
    /\ Init
    /\ session = EmptyDict

SpecFresh == InitFresh /\ [][Next]_vars

-----------------------------------------------------------------------------
(* Properties of the locale selector *)

\* the last request carried ?lang with a value of LANGUAGES
SupportedOverride == "lang" \in DOMAIN args /\ InList(args["lang"], languages)

\* the last request carried ?lang with a value outside LANGUAGES
UnsupportedOverride == "lang" \in DOMAIN args /\ ~InList(args["lang"], languages)

\* C1: a request whose ?lang value is one of LANGUAGES gets exactly that
\* value back and leaves it in the session under 'lang', whatever session
\* and Accept-Language it came with.
C1_SupportedOverrideWins ==
    (tier # 0 /\ SupportedOverride) =>
        /\ locale = args["lang"]
        /\ "lang" \in DOMAIN session
        /\ session["lang"] = args["lang"]
        /\ DOMAIN session = {"lang"}

\* a supported override replaced a different session value although the
\* header asked for something else
C1_Witness ==
    /\ tier = 1
    /\ SupportedOverride
    /\ args["lang"] = "mn"
    /\ locale = "mn"
    /\ session = LangDict("mn")
    /\ accept = <<"ru">>
    /\ sticky = "mn"

\* C2: a request whose ?lang value is outside LANGUAGES is served as if it
\* carried no ?lang: the session is left alone and nothing is written, and
\* the result is the session value if 'lang' is in the session, else the
\* negotiated Accept-Language match, else the selector's default.
C2_UnsupportedOverrideIgnored ==
    [][ UnsupportedOverride' =>
            /\ session' = session
            /\ writes' = 0
            /\ locale' = get_locale(EmptyDict, session, accept', languages).ret
            /\ tier' = get_locale(EmptyDict, session, accept', languages).tier
            /\ locale' = IF "lang" \in DOMAIN session THEN session["lang"]
                         ELSE IF best_match(accept', languages) # NoneVal
                              THEN best_match(accept', languages)
                         ELSE "en" ]_vars

\* an unsupported override fell through to header negotiation
C2_Witness ==
    /\ tier = 3
    /\ UnsupportedOverride
    /\ args["lang"] = "fr"
    /\ session = EmptyDict
    /\ accept = <<"fr", "en-US">>
    /\ locale = "en"

\* C3: without ?lang, a non-empty session value is returned unchanged, be
\* it in LANGUAGES or not, and neither the header nor the default is used.
C3_SessionValueVerbatim ==
    [][ ( /\ "lang" \notin DOMAIN args'
          /\ "lang" \in DOMAIN session
          /\ session["lang"] \notin {"", NoneVal} ) =>
            /\ locale' = session["lang"]
            /\ tier' = 2
            /\ session' = session ]_vars

\* a stale session value outside LANGUAGES won over a matching header
C3_Witness ==
    /\ tier = 2
    /\ args = EmptyDict
    /\ session = LangDict("fr")
    /\ ~InList("fr", languages)
    /\ accept = <<"ru">>
    /\ InList("ru", languages)
    /\ locale = "fr"

\* C4 (as claimed): every call ends with a non-empty locale string, also
\* when the session holds 'lang' with an empty or null value.
C4_NonEmptyLocale ==
    tier # 0 => locale \notin {"", NoneVal}

\* C5: only tier 1 changes the session: a result taken from the session,
\* the header or the default leaves the session as it was, and one call
\* assigns to the session at most once.
C5_OnlyTierOneWrites ==
    [][ /\ writes' <= 1
        /\ (session' # session) => (tier' = 1 /\ writes' = 1)
        /\ (tier' \in 2..4) => (session' = session /\ writes' = 0)
        /\ (tier' = 1) => SupportedOverride' ]_vars

\* a header-negotiated result left an empty session empty
C5_Witness ==
    /\ tier = 3
    /\ session = EmptyDict
    /\ writes = 0
    /\ accept = <<"ru">>
    /\ locale = "ru"

\* C6 (as claimed): with no supported override, no session value and no
\* header match, the result is the configured BABEL_DEFAULT_LOCALE.
C6_ConfiguredDefault ==
    tier = 4 => locale = defaultLocale

\* C7: once a request carried a supported override L, every request of
\* that session resolves to L, whatever its header and whatever
\* unsupported override it carries, until another supported override
\* replaces L.
C7_Sticky ==
    (tier # 0 /\ sticky # NoneVal) =>
        /\ locale = sticky
        /\ session = LangDict(sticky)

\* a later request with an unsupported override and a header asking for
\* another supported language still resolved to the earlier override
C7_Witness ==
    /\ sticky = "mn"
    /\ tier = 2
    /\ UnsupportedOverride
    /\ accept = <<"ru">>
    /\ InList("ru", languages)
    /\ locale = "mn"

-----------------------------------------------------------------------------
(* The formatters, called while a response is rendered in some locale *)

InitFormat ==
    /\ SetupI18n(<<"en">>, "en")
    /\ session = EmptyDict
    /\ args = EmptyDict
    /\ accept = <<>>
    /\ locale \in RenderLocales
    /\ tier = 0
    /\ writes = 0
    /\ sticky = NoneVal
    /\ repeated = FALSE
    /\ pc = "call"
    /\ call \in {"time_ago", "is_new", "format_product_count", "translate_with_context"}
    /\ dtGiven \in IF call \in {"time_ago", "is_new"} THEN BOOLEAN ELSE {FALSE}
    /\ elapsed \in IF dtGiven THEN ElapsedSamples ELSE {0}
    /\ days \in IF call = "is_new" THEN -1..MaxDays ELSE {0}
    /\ count \in IF call = "format_product_count" THEN 0..MaxCount ELSE {0}
    /\ ago = lazy_gettext("")
    /\ isNew = FALSE
    /\ products = lazy_gettext("")
    /\ catalog \in IF call = "translate_with_context" THEN Catalogs ELSE {{}}
    /\ context \in IF call = "translate_with_context" THEN Contexts ELSE {DefaultContext}
    /\ message \in IF call = "translate_with_context" THEN Messages ELSE {""}
    /\ translated = Entry("", "")

\* {{ order.created_at|time_ago }}
TimeAgoCall ==
    /\ pc = "call"
    /\ call = "time_ago"
    /\ ago' = time_ago(locale, dtGiven, elapsed)
    /\ pc' = "return"
    /\ UNCHANGED <<resolverVars, locale, call, dtGiven, elapsed, days, count, isNew, products>>
    /\ UNCHANGED lookupVars

\* {{ product.created_at|is_new }}
IsNewCall ==
    /\ pc = "call"
    /\ call = "is_new"
    /\ isNew' = is_new(dtGiven, elapsed, days)
    /\ pc' = "return"
    /\ UNCHANGED <<resolverVars, locale, call, dtGiven, elapsed, days, count, ago, products>>
    /\ UNCHANGED lookupVars

\* {{ products|length|format_product_count }}
FormatProductCountCall ==
    /\ pc = "call"
    /\ call = "format_product_count"
    /\ products' = format_product_count(locale, count)
    /\ pc' = "return"
    /\ UNCHANGED <<resolverVars, locale, call, dtGiven, elapsed, days, count, ago, isNew>>
    /\ UNCHANGED lookupVars

\* translate_with_context(message, context) while a response is rendered
TranslateWithContextCall ==
    /\ pc = "call"
    /\ call = "translate_with_context"
    /\ translated' = translate_with_context(catalog, message, context)
    /\ pc' = "return"
    /\ UNCHANGED <<resolverVars, locale, call, dtGiven, elapsed, days, count, ago, isNew,
                   products, catalog, context, message>>

NextFormat == TimeAgoCall \/ IsNewCall \/ FormatProductCountCall \/ TranslateWithContextCall

SpecFormat == InitFormat /\ [][NextFormat]_vars

-----------------------------------------------------------------------------
(* Properties of the formatters *)

\* the seconds of one unit of a time_ago phrase
UnitOf(msgid) ==
    CASE msgid = "%(num)d minute ago" -> 60
      [] msgid = "%(num)d hour ago"   -> 3600
      [] msgid = "%(num)d day ago"    -> 86400
      [] msgid = "%(num)d week ago"   -> 604800
      [] msgid = "%(num)d month ago"  -> 2592000
      [] msgid = "%(num)d year ago"   -> 31536000

\* time_ago returned for elapsed in [lo, hi) seconds exactly the phrase msgid
InBucket(msgid, lo, hi, bounded) ==
    (ago.msgid = msgid) <=>
        (elapsed >= lo * TicksPerSecond /\ (bounded => elapsed < hi * TicksPerSecond))

\* time_ago returned the phrase msgid with the number n
Says(msgid, n) == ago.msgid = msgid /\ ago.num = n

\* C8: time_ago takes the first bucket whose threshold the elapsed seconds
\* stay below (60, 3600, 86400, 604800, 2592000, 31536000, else years), the
\* number shown is floor(elapsed / unit), and a threshold itself belongs to
\* the next bucket: 59s just now, 60s 1 minute, 3599s 59 minutes, 3600s
\* 1 hour, 86399s 23 hours, 86400s 1 day.
C8_TimeAgoBuckets ==
    (pc = "return" /\ call = "time_ago" /\ dtGiven) =>
        /\ (ago.msgid = "Just now") <=> (elapsed < 60 * TicksPerSecond)
        /\ InBucket("%(num)d minute ago", 60, 3600, TRUE)
        /\ InBucket("%(num)d hour ago", 3600, 86400, TRUE)
        /\ InBucket("%(num)d day ago", 86400, 604800, TRUE)
        /\ InBucket("%(num)d week ago", 604800, 2592000, TRUE)
        /\ InBucket("%(num)d month ago", 2592000, 31536000, TRUE)
        /\ InBucket("%(num)d year ago", 31536000, 0, FALSE)
        /\ (ago.msgid # "Just now") =>
                /\ ago.num * UnitOf(ago.msgid) * TicksPerSecond <= elapsed
                /\ elapsed < (ago.num + 1) * UnitOf(ago.msgid) * TicksPerSecond
        /\ (elapsed = 59 * TicksPerSecond) => ago.msgid = "Just now"
        /\ (elapsed = 60 * TicksPerSecond) => Says("%(num)d minute ago", 1)
        /\ (elapsed = 3599 * TicksPerSecond) => Says("%(num)d minute ago", 59)
        /\ (elapsed = 3600 * TicksPerSecond) => Says("%(num)d hour ago", 1)
        /\ (elapsed = 86399 * TicksPerSecond) => Says("%(num)d hour ago", 23)
        /\ (elapsed = 86400 * TicksPerSecond) => Says("%(num)d day ago", 1)

\* one second short of an hour is still 59 minutes
C8_Witness ==
    /\ pc = "return"
    /\ call = "time_ago"
    /\ dtGiven
    /\ elapsed = 3599 * TicksPerSecond
    /\ Says("%(num)d minute ago", 59)

RuCategory(n) ==
    IF n % 10 = 1 /\ n % 100 # 11 THEN "one"
    ELSE IF n % 10 \in 2..4 /\ n % 100 \notin 12..14 THEN "few"
    ELSE "many"

C11_ThreeStepLookup ==
    (pc = "return" /\ call = "translate_with_context") =>
        translated = IF <<context, message>> \in catalog THEN Entry(context, message)
                     ELSE IF <<DefaultContext, message>> \in catalog
                          THEN Entry(DefaultContext, message)
                     ELSE Entry("", message)

\* C11 (amended): the lookup never raises and takes two steps: the entry
\* of the exact (context, message id) pair when there is one, otherwise
\* the message id itself; an entry under the default context is returned
\* only when the default context is the one asked for.
C11_TwoStepLookup ==
    (pc = "return" /\ call = "translate_with_context") =>
        /\ (<<context, message>> \in catalog) => translated = Entry(context, message)
        /\ (<<context, message>> \notin catalog) => translated = Entry("", message)
        /\ translated.msgid = message
        /\ (translated.ctxt = DefaultContext) => context = DefaultContext

\* 'open' asked for under 'action', translated only under the default
\* context: the message id comes back
C11_Witness ==
    /\ pc = "return"
    /\ call = "translate_with_context"
    /\ context = "action"
    /\ message = "open"
    /\ <<"action", "open">> \notin catalog
    /\ <<DefaultContext, "open">> \in catalog
    /\ translated = Entry("", "open")

\* C12: get_locale is idempotent: a call that gets the override and the
\* Accept-Language list of the call before it, and the session that call
\* left, returns the same locale, asks for the same session write and
\* leaves the session as it found it.
C12_Idempotent ==
    [][ repeated' =>
            /\ locale' = locale
            /\ session' = session
            /\ writes' = writes
            /\ tier' = tier ]_vars

\* a supported override sent twice: the second call writes the same value
\* again and returns it
C12_Witness ==
    /\ repeated
    /\ tier = 1
    /\ writes = 1
    /\ args = LangDict("ru")
    /\ session = LangDict("ru")
    /\ locale = "ru"

\* C13: in a session that started without 'lang', after any requests the
\* session has no 'lang' or holds a member of LANGUAGES, and every locale
\* returned is a member of LANGUAGES or the hardcoded 'en'.
C13_SessionValid ==
    /\ ("lang" \in DOMAIN session) => InList(session["lang"], languages)
    /\ DOMAIN session \subseteq {"lang"}
    /\ (tier # 0) => (InList(locale, languages) \/ locale = "en")

\* after a supported override, a request with an unsupported override and
\* no usable header is served from the validated session value
C13_Witness ==
    /\ tier = 2
    /\ UnsupportedOverride
    /\ args = LangDict("fr")
    /\ accept = <<"fr">>
    /\ session = LangDict("mn")
    /\ locale = "mn"
    /\ ~InList("en", languages)

\* the numbers a time_ago phrase may show
CountRange(msgid) ==
    CASE msgid = "%(num)d minute ago" -> 1..59
      [] msgid = "%(num)d hour ago"   -> 1..23
      [] msgid = "%(num)d day ago"    -> 1..6
      [] msgid = "%(num)d week ago"   -> 1..4
      [] msgid = "%(num)d month ago"  -> 1..12

\* C14: time_ago never shows a number below 1 or outside its bucket: every
\* elapsed time below 60 seconds, negative ones (dt in the future)
\* included, gives the plain 'Just now' without a number, minutes stay in
\* 1..59, hours in 1..23, days in 1..6, weeks in 1..4, months in 1..12 and
\* years are at least 1.
C14_CountInRange ==
    (pc = "return" /\ call = "time_ago" /\ dtGiven) =>
        /\ (elapsed < 60 * TicksPerSecond) => ago = [msgid |-> "Just now", form |-> "none", num |-> 0]
        /\ (elapsed >= 60 * TicksPerSecond) => ago.num >= 1
        /\ (elapsed >= 60 * TicksPerSecond /\ ago.msgid # "%(num)d year ago") =>
                ago.num \in CountRange(ago.msgid)
        /\ ago.msgid \in {"Just now", "%(num)d minute ago", "%(num)d hour ago", "%(num)d day ago",
                          "%(num)d week ago", "%(num)d month ago", "%(num)d year ago"}

\* a dt a day in the future is 'Just now'
C14_Witness ==
    /\ pc = "return"
    /\ call = "time_ago"
    /\ dtGiven
    /\ elapsed = -(86400 * TicksPerSecond)
    /\ ago.msgid = "Just now"
    /\ ago.form = "none"

====
